---------------------------- MODULE Spec2Model ----------------------------
(***************************************************************************)
(* A model of src/atomichashmap.rs: a fixed-capacity, lock-free hash map   *)
(* from u64 keys to u64 values (open addressing, linear probing, atomics). *)
(*                                                                         *)
(* 64-bit words that the code computes with (keys, the hash, the loop      *)
(* bounds start_index and start_index + size) are tuples of eight bytes,   *)
(* least significant first, so that their arithmetic keeps its width.      *)
(* Values are only stored and loaded, never computed with: small naturals. *)
(*                                                                         *)
(* Every atomic load, compare_and_swap and store is one step; the steps of *)
(* the threads interleave. The addition start_index + self.size overflows  *)
(* for some keys: the build decides whether that panics or wraps, and Init *)
(* leaves the build open (overflow_checks).                                *)
(*                                                                         *)
(* History variables (written, distinct, nzrun, ncalls, newarg, found,     *)
(* stored, the fields lost, had, quiet, after, late, sawfull, fair, wkey,   *)
(* wval, prev of a thread) record what the calls have done; no action's   *)
(* effect on the map depends on them (ncalls bounds the calls).           *)
(***************************************************************************)
EXTENDS Integers, Sequences, FiniteSets, TLC

\* ------------------------------------------------------------------ bounds
NThreads   == 2      \* threads sharing the map in Spec
MaxOps     == 4      \* calls made in all, by all threads, in Spec
MaxOpsSeq  == 4      \* calls the single thread makes in SpecSeq
MaxKey     == 3      \* the small keys 0..MaxKey are inputs (0 is the sentinel)
MaxVal     == 1      \* values 0..MaxVal are inputs
MaxSizeArg == 4      \* new(size) is called with size in 0..MaxSizeArg

\* --------------------------------------------------------- 64-bit words
Limbs == 1..8
Byte  == 256

\* u64 from a natural below 2^31
U64(n) == [i \in Limbs |-> IF i <= 4 THEN (n \div (Byte ^ (i - 1))) % Byte ELSE 0]

\* the natural a u64 below 2^24 stands for
Nat24(x) == x[1] + Byte * x[2] + Byte * Byte * x[3]

Zero64 == U64(0)

RECURSIVE XorNat(_, _)
XorNat(a, b) == IF a = 0 THEN b
                ELSE IF b = 0 THEN a
                ELSE ((a + b) % 2) + 2 * XorNat(a \div 2, b \div 2)

RECURSIVE AndNat(_, _)
AndNat(a, b) == IF a = 0 \/ b = 0 THEN 0
                ELSE ((a % 2) * (b % 2)) + 2 * AndNat(a \div 2, b \div 2)

Xor64(x, y) == [i \in Limbs |-> XorNat(x[i], y[i])]
And64(x, y) == [i \in Limbs |-> AndNat(x[i], y[i])]

\* x >> 33: four whole bytes and one bit
Shr33(x) == [i \in Limbs |->
               IF i > 4 THEN 0
               ELSE (x[i + 4] \div 2) + (IF i + 5 <= 8 THEN (x[i + 5] % 2) * 128 ELSE 0)]

\* carry into byte i of the sum x + y (i in 1..9; the carry into 9 is the overflow)
RECURSIVE AddCarry(_, _, _)
AddCarry(x, y, i) == IF i = 1 THEN 0
                     ELSE (x[i - 1] + y[i - 1] + AddCarry(x, y, i - 1)) \div Byte

WrappingAdd(x, y) == [i \in Limbs |-> (x[i] + y[i] + AddCarry(x, y, i)) % Byte]
AddOverflows(x, y) == AddCarry(x, y, 9) = 1

\* column i of the schoolbook product, with the carry from the columns below
RECURSIVE MulColumn(_, _, _)
RECURSIVE ColSum(_, _, _, _)
ColSum(x, y, i, j) == IF j > i THEN 0 ELSE x[j] * y[i - j + 1] + ColSum(x, y, i, j + 1)
MulColumn(x, y, i) == IF i = 0 THEN 0
                      ELSE ColSum(x, y, i, 1) + (MulColumn(x, y, i - 1) \div Byte)

WrappingMul(x, y) == [i \in Limbs |-> MulColumn(x, y, i) % Byte]

\* x < y as unsigned 64-bit numbers
RECURSIVE LessFrom(_, _, _)
LessFrom(x, y, i) == IF i = 0 THEN FALSE
                     ELSE IF x[i] # y[i] THEN x[i] < y[i]
                     ELSE LessFrom(x, y, i - 1)
Less64(x, y) == LessFrom(x, y, 8)

\* 0xff51afd7ed558ccd and 0xc4ceb9fe1a85ec53
MurmurC1 == <<205, 140, 85, 237, 215, 175, 81, 255>>
MurmurC2 == <<83, 236, 133, 26, 254, 185, 206, 196>>

hash_key(val) ==
    LET r1 == Xor64(val, Shr33(val))
        r2 == WrappingMul(r1, MurmurC1)
        r3 == Xor64(r2, Shr33(r2))
        r4 == WrappingMul(r3, MurmurC2)
    IN  Xor64(r4, Shr33(r4))

\* ------------------------------------------------------------------ inputs
\* 0x89a5850e63c5f8aa: the key that hash_key sends to 0xffffffffffffffff
KeyHashMax == <<170, 248, 197, 99, 14, 133, 165, 137>>

SmallKeys == {U64(n) : n \in 0..MaxKey}
Keys      == SmallKeys \cup {KeyHashMax}
NonZeroKeys == Keys \ {Zero64}
Values    == 0..MaxVal
Threads   == 1..NThreads

HashOf == [k \in Keys |-> hash_key(k)]

One64 == U64(1)

\* 1 << i as a 64-bit word, for i in 0..63
Shl1(i) == [j \in Limbs |-> IF j = (i \div 8) + 1 THEN 2 ^ (i % 8) ELSE 0]

\* ------------------------------------------------------------------- state
VARIABLES
    mapst,            \* "none" before new(), "live" after it, "panic" when new() panicked
    size,             \* AtomicHashMap.size
    keys,             \* AtomicHashMap.keys:   index -> u64
    values,           \* AtomicHashMap.values: index -> value
    overflow_checks,  \* the build: TRUE when integer overflow panics, FALSE when it wraps
    thr,              \* each thread's call in progress (or its last call) and locals;
                      \* n, the probe iterations of the call so far; history in it:
                      \* lost, the index where the call last lost a compare_and_swap;
                      \* had, prev (single thread) and quiet (see Begin)
    written,          \* history: key -> the values insert(key, _) has been called with
    distinct,         \* history (single thread): the number of insert calls so far when
                      \*          all of them had pairwise distinct nonzero keys, else -1
    ncalls,           \* history: the number of calls made so far
    nzrun,            \* history (single thread): the number of leading insert calls with
                      \*          a nonzero value
    newarg,           \* history: the size new() was called with (Zero64 before the call)
    found,            \* history: the keys a get has returned Some for
    stored            \* history: the keys an insert has returned Ok for

vars == <<mapst, size, keys, values, overflow_checks, thr, written, distinct, ncalls,
          nzrun, newarg, found, stored>>

Ok      == <<"Ok">>
Full    == <<"Full">>
None    == <<"None">>
Some(v) == <<"Some", v>>
Count(n) == <<"Len", n>>
Panic   == <<"Panic">>
NoRes   == <<"-">>

NoCall == [op |-> "none", key |-> Zero64, val |-> 0, res |-> NoRes, had |-> FALSE]

ThreadInit ==
    [pc |-> "idle", op |-> "none", key |-> Zero64, val |-> 0, res |-> NoRes,
     idx |-> 0, cnt |-> 0, lkey |-> Zero64,
     n |-> 0, lost |-> -1, had |-> FALSE, quiet |-> FALSE, after |-> FALSE,
     late |-> FALSE, sawfull |-> FALSE, fair |-> FALSE, wkey |-> {}, wval |-> {},
     prev |-> NoCall]

Init ==
    /\ mapst = "none"
    /\ size = 0
    /\ keys = <<>>
    /\ values = <<>>
    /\ overflow_checks \in BOOLEAN
    /\ thr = [t \in Threads |-> ThreadInit]
    /\ written = [k \in NonZeroKeys |-> {}]
    /\ distinct = 0
    /\ ncalls = 0
    /\ nzrun = 0
    /\ newarg = Zero64
    /\ found = {}
    /\ stored = {}

\* ------------------------------------------------------------ construction
\* the sizes new() is called with: the small ones, and 1 << 63
NewArgs == {U64(n) : n \in 0..MaxSizeArg} \cup {Shl1(63)}

\* lines 34-40
good_size(sz) == \E i \in 1..63 : sz = Shl1(i)

\* lines 46 and 51: Vec::with_capacity(size) of 8-byte elements panics ("capacity
\* overflow") when size * 8 exceeds isize::MAX, that is from size = 2^60 on
AllocPanics(sz) == sz[8] >= 16

New ==
    /\ mapst = "none"
    /\ \E sz \in NewArgs :
         /\ newarg' = sz
         /\ IF good_size(sz) /\ ~AllocPanics(sz)
            THEN /\ mapst' = "live"
                 /\ size' = Nat24(sz)
                 /\ keys' = [i \in 0..(Nat24(sz) - 1) |-> Zero64]
                 /\ values' = [i \in 0..(Nat24(sz) - 1) |-> 0]
            ELSE /\ mapst' = "panic"
                 /\ UNCHANGED <<size, keys, values>>
    /\ UNCHANGED <<overflow_checks, thr, written, distinct, ncalls, nzrun, found, stored>>

\* ------------------------------------------------------------ the probe loop
\* the assertion left out
KeyAsserted_Off(k) == TRUE

\* lines 73 and 108: assert!(key != 0)
KeyAsserted(k) == k # Zero64

\* the end of the range start_index..(start_index + self.size), when the sum wraps
RangeEnd(start, sz) == WrappingAdd(start, U64(sz))

\* the addition start_index + self.size panics in a build with overflow checks
RangePanics(start, sz) == overflow_checks /\ AddOverflows(start, U64(sz))

\* Range::next yields cur while cur < end
RangeHas(cur, end) == Less64(cur, end)

\* index & (self.size - 1)
MaskIndex(cur, sz) == Nat24(And64(cur, U64(sz - 1)))

InFlightInsert(r) == r.pc \in {"ins_load", "ins_cas", "ins_store"}
\* the nonzero key k is stored in a slot
KeyPresent(k) == k # Zero64 /\ \E i \in DOMAIN keys : keys[i] = k

\* some slot holds no key
SlotFree == \E i \in DOMAIN keys : keys[i] = Zero64

\* a call begins; with hist, the last call is remembered as the previous one, and
\* whether the key was in the table when the call began
Begin(r, op, k, v, hist) ==
    [r EXCEPT !.prev = IF hist
                       THEN [op |-> r.op, key |-> r.key, val |-> r.val, res |-> r.res,
                             had |-> r.had]
                       ELSE NoCall,
              !.op = op, !.key = k, !.val = v, !.res = NoRes,
              !.had = hist /\ KeyPresent(k),
              \* quiet: a get that began with no insert in progress, and no insert
              \* has been called since (see Disturb)
              !.quiet = (op = "get") /\ \A u \in Threads : ~InFlightInsert(thr[u]),
              \* after: a get that began after a get of the key returned Some
              !.after = (op = "get") /\ k \in found,
              !.late = FALSE, !.sawfull = FALSE, !.lost = -1, !.fair = FALSE,
              \* wkey, wval: the key and value slots the call has written
              !.wkey = {}, !.wval = {}]

\* a call returns res (or panics): its locals die; late: an insert that ends after an
\* insert of the key returned Ok
End(r, pc, res) ==
    [r EXCEPT !.pc = pc, !.res = res, !.idx = 0, !.cnt = 0, !.lkey = Zero64, !.n = 0,
              !.late = (r.op = "insert") /\ r.key \in stored]

Return(r, res) == End(r, "idle", res)

\* the indices the loop body sees: the range cur..end is walked as Range::next walks
\* it, each index masked as line 81 masks it
RECURSIVE ProbeFrom(_, _, _)
ProbeFrom(cur, end, sz) ==
    IF RangeHas(cur, end)
    THEN <<MaskIndex(cur, sz)>> \o ProbeFrom(WrappingAdd(cur, One64), end, sz)
    ELSE <<>>

\* the sizes new() accepts, and for each key and size the indices its loop visits when
\* the range is built without a panic
LiveSizes == {sz \in 0..MaxSizeArg : good_size(U64(sz))}
Probes == [k \in Keys |-> [sz \in LiveSizes |->
              ProbeFrom(HashOf[k], RangeEnd(HashOf[k], sz), sz)]]

\* the loop is entered at start_index, or not at all; exhausted is the result then
EnterLoop(r, looppc, exhausted) ==
    LET probe == Probes[r.key][size]
    IN  IF RangePanics(HashOf[r.key], size) THEN End(r, "panicked", Panic)
        ELSE IF 1 <= Len(probe)
             THEN [r EXCEPT !.pc = looppc, !.idx = probe[1], !.n = 1]
             ELSE Return(r, exhausted)

\* `continue`: the next index of the range, or the end of the loop
Continue(r, looppc, exhausted) ==
    LET probe == Probes[r.key][size]
    IN  IF r.n + 1 <= Len(probe)
        THEN [r EXCEPT !.pc = looppc, !.idx = probe[r.n + 1], !.n = r.n + 1]
        ELSE Return(r, exhausted)

\* -------------------------------------------------------------------- insert
\* line 91: the compare_and_swap left the slot to this key (it was empty, or a racer
\* the compare_and_swap taken for lost whatever it returned
CasOwns_Never(prev_key, key) == FALSE

\* without the comparison with the key of line 91: finding its own key counts as lost
CasOwns_Strict(prev_key, key) == prev_key = Zero64

\* the result of the compare_and_swap ignored
CasOwns_Always(prev_key, key) == TRUE

\* stored the same key)
CasOwns(prev_key, key) == ~(prev_key # Zero64 /\ prev_key # key)

\* thread t becomes r; when r is an insert that has returned Err(Full), the inserts of
\* the same key in progress on the other threads have seen it (sawfull)
Step_t(t, r) ==
    [u \in Threads |->
        IF u = t THEN r
        ELSE IF r.res = Full /\ InFlightInsert(thr[u]) /\ thr[u].key = r.key
             THEN [thr[u] EXCEPT !.sawfull = TRUE]
             ELSE thr[u]]

\* thread t has lost a slot to key k: a slot is free, and the only inserts in progress
\* are t's and those of k
Fair(t, k) ==
    /\ SlotFree
    /\ \A u \in Threads \ {t} : InFlightInsert(thr[u]) => thr[u].key = k

\* an insert call by t ends the quiet of every other thread's get, and the fair of
\* every other thread's insert
Disturb(t, r) ==
    [u \in Threads |-> IF u = t THEN r
                       ELSE [Step_t(t, r)[u] EXCEPT !.quiet = FALSE, !.fair = FALSE]]

\* lines 72-78: the assertion, the hash and the range
InsertCall(t, budget, hist) ==
    /\ mapst = "live"
    /\ thr[t].pc = "idle"
    /\ ncalls < budget
    /\ ncalls' = ncalls + 1
    /\ \E k \in Keys, v \in Values :
         LET r == Begin(thr[t], "insert", k, v, hist)
         IN  /\ thr' = Disturb(t, IF KeyAsserted(k) THEN EnterLoop(r, "ins_load", Full)
                                  ELSE End(r, "panicked", Panic))
             /\ written' = IF k = Zero64 THEN written
                           ELSE [written EXCEPT ![k] = @ \cup {v}]
             /\ distinct' = IF ~hist THEN distinct
                            ELSE IF distinct >= 0 /\ k # Zero64 /\ written[k] = {}
                                 THEN distinct + 1 ELSE -1
             /\ nzrun' = IF hist /\ distinct >= 0 /\ nzrun = distinct /\ v # 0
                         THEN nzrun + 1 ELSE nzrun
    /\ UNCHANGED <<mapst, size, keys, values, overflow_checks, newarg, found, stored>>

\* the load with the slot's own key taken for another's
InsLoad_SkipOwn(t) ==
    /\ thr[t].pc = "ins_load"
    /\ LET r == thr[t]
           curr_key == keys[r.idx]
       IN  thr' = Step_t(t, IF curr_key # Zero64
                            THEN Continue(r, "ins_load", Full)
                            ELSE [r EXCEPT !.pc = "ins_cas"])
    /\ UNCHANGED <<mapst, size, keys, values, overflow_checks, written, distinct, ncalls, nzrun, newarg, found, stored>>

\* the load without the comparison of line 85: any taken slot is stored into
InsLoad_AnyTaken(t) ==
    /\ thr[t].pc = "ins_load"
    /\ LET r == thr[t]
           curr_key == keys[r.idx]
       IN  thr' = [thr EXCEPT ![t] =
                     IF curr_key = Zero64
                     THEN [r EXCEPT !.pc = "ins_cas"]
                     ELSE [r EXCEPT !.pc = "ins_store"]]
    /\ UNCHANGED <<mapst, size, keys, values, overflow_checks, written, distinct, ncalls, nzrun, newarg, found, stored>>

\* lines 83-88: the acquire load of the slot's key
InsLoad(t) ==
    /\ thr[t].pc = "ins_load"
    /\ LET r == thr[t]
           curr_key == keys[r.idx]
       IN  thr' = Step_t(t, IF curr_key # r.key
                                THEN IF curr_key # Zero64
                                     THEN Continue(r, "ins_load", Full)
                                     ELSE [r EXCEPT !.pc = "ins_cas"]
                                ELSE [r EXCEPT !.pc = "ins_store"])
    /\ UNCHANGED <<mapst, size, keys, values, overflow_checks, written, distinct, ncalls, nzrun, newarg, found, stored>>

\* a plain store in place of the compare_and_swap
InsCas_Blind(t) ==
    /\ thr[t].pc = "ins_cas"
    /\ keys' = [keys EXCEPT ![thr[t].idx] = thr[t].key]
    /\ thr' = [thr EXCEPT ![t] = [thr[t] EXCEPT !.pc = "ins_store",
                                                 !.wkey = @ \cup {thr[t].idx}]]
    /\ UNCHANGED <<mapst, size, values, overflow_checks, written, distinct, ncalls, nzrun, newarg, found, stored>>

\* lines 90-94: compare_and_swap(0, key)
InsCas(t) ==
    /\ thr[t].pc = "ins_cas"
    /\ LET r == thr[t]
           prev_key == keys[r.idx]
           rw == IF prev_key = Zero64 THEN [r EXCEPT !.wkey = @ \cup {r.idx}] ELSE r
       IN  /\ keys' = IF prev_key = Zero64 THEN [keys EXCEPT ![r.idx] = r.key] ELSE keys
           /\ thr' = Step_t(t, IF CasOwns(prev_key, r.key)
                                THEN [rw EXCEPT !.pc = "ins_store"]
                                ELSE Continue([rw EXCEPT !.lost = r.idx,
                                                         !.fair = Fair(t, prev_key)],
                                              "ins_load", Full))
    /\ UNCHANGED <<mapst, size, values, overflow_checks, written, distinct, ncalls, nzrun, newarg, found, stored>>

\* Ok returned without the store
InsStore_Dropped(t) ==
    /\ thr[t].pc = "ins_store"
    /\ thr' = [thr EXCEPT ![t] = Return(thr[t], Ok)]
    /\ stored' = stored \cup {thr[t].key}
    /\ UNCHANGED <<mapst, size, keys, values, overflow_checks, written, distinct, ncalls,
                   nzrun, newarg, found>>

\* lines 99-100: the release store of the value
InsStore(t) ==
    /\ thr[t].pc = "ins_store"
    /\ values' = [values EXCEPT ![thr[t].idx] = thr[t].val]
    /\ thr' = [thr EXCEPT ![t] = Return([thr[t] EXCEPT !.wval = @ \cup {thr[t].idx}], Ok)]
    /\ stored' = stored \cup {thr[t].key}
    /\ UNCHANGED <<mapst, size, keys, overflow_checks, written, distinct, ncalls, nzrun, newarg, found>>

\* ----------------------------------------------------------------------- get
\* lines 107-113
GetCall(t, budget, hist) ==
    /\ mapst = "live"
    /\ thr[t].pc = "idle"
    /\ ncalls < budget
    /\ ncalls' = ncalls + 1
    /\ \E k \in Keys :
         LET r == Begin(thr[t], "get", k, 0, hist)
         IN  thr' = [thr EXCEPT ![t] = IF KeyAsserted(k) THEN EnterLoop(r, "get_load", None)
                                       ELSE End(r, "panicked", Panic)]
    /\ UNCHANGED <<mapst, size, keys, values, overflow_checks, written, distinct, nzrun, newarg, found, stored>>

\* lines 118-121
GetLoad(t) ==
    /\ thr[t].pc = "get_load"
    /\ LET r == thr[t]
       IN  thr' = [thr EXCEPT ![t] =
                     IF keys[r.idx] # r.key
                     THEN Continue(r, "get_load", None)
                     ELSE [r EXCEPT !.pc = "get_val"]]
    /\ UNCHANGED <<mapst, size, keys, values, overflow_checks, written, distinct, ncalls, nzrun, newarg, found, stored>>

\* a stored value of 0 taken for no value, as len takes it
GetVal_ZeroAbsent(t) ==
    /\ thr[t].pc = "get_val"
    /\ thr' = [thr EXCEPT ![t] = Return(thr[t], IF values[thr[t].idx] = 0 THEN None
                                                ELSE Some(values[thr[t].idx]))]
    /\ found' = IF values[thr[t].idx] = 0 THEN found ELSE found \cup {thr[t].key}
    /\ UNCHANGED <<mapst, size, keys, values, overflow_checks, written, distinct, ncalls, nzrun, newarg, stored>>

\* lines 123-126
GetVal(t) ==
    /\ thr[t].pc = "get_val"
    /\ thr' = [thr EXCEPT ![t] = Return(thr[t], Some(values[thr[t].idx]))]
    /\ found' = found \cup {thr[t].key}
    /\ UNCHANGED <<mapst, size, keys, values, overflow_checks, written, distinct, ncalls, nzrun, newarg, stored>>

\* ----------------------------------------------------------------------- len
\* lines 133-137
LenCall(t, budget, hist) ==
    /\ mapst = "live"
    /\ thr[t].pc = "idle"
    /\ ncalls < budget
    /\ ncalls' = ncalls + 1
    /\ LET r == Begin(thr[t], "len", Zero64, 0, hist)
       IN  thr' = [thr EXCEPT ![t] =
                     IF 0 < size THEN [r EXCEPT !.pc = "len_key", !.idx = 0, !.cnt = 0]
                     ELSE Return(r, Count(0))]
    /\ UNCHANGED <<mapst, size, keys, values, overflow_checks, written, distinct, nzrun, newarg, found, stored>>

\* line 138
LenKey(t) ==
    /\ thr[t].pc = "len_key"
    /\ thr' = [thr EXCEPT ![t] = [thr[t] EXCEPT !.pc = "len_val",
                                                 !.lkey = keys[thr[t].idx]]]
    /\ UNCHANGED <<mapst, size, keys, values, overflow_checks, written, distinct, ncalls, nzrun, newarg, found, stored>>

\* the count without the test of the value
LenVal_KeysOnly(t) ==
    /\ thr[t].pc = "len_val"
    /\ LET r == thr[t]
           count == IF r.lkey # Zero64 THEN r.cnt + 1 ELSE r.cnt
       IN  thr' = [thr EXCEPT ![t] =
                     IF r.idx + 1 < size
                     THEN [r EXCEPT !.pc = "len_key", !.idx = r.idx + 1, !.cnt = count,
                                    !.lkey = Zero64]
                     ELSE Return(r, Count(count))]
    /\ UNCHANGED <<mapst, size, keys, values, overflow_checks, written, distinct, ncalls, nzrun, newarg, found, stored>>

\* lines 139-145
LenVal(t) ==
    /\ thr[t].pc = "len_val"
    /\ LET r == thr[t]
           value == values[r.idx]
           count == IF r.lkey # Zero64 /\ value # 0 THEN r.cnt + 1 ELSE r.cnt
       IN  thr' = [thr EXCEPT ![t] =
                     IF r.idx + 1 < size
                     THEN [r EXCEPT !.pc = "len_key", !.idx = r.idx + 1, !.cnt = count,
                                    !.lkey = Zero64]
                     ELSE Return(r, Count(count))]
    /\ UNCHANGED <<mapst, size, keys, values, overflow_checks, written, distinct, ncalls, nzrun, newarg, found, stored>>

\* ------------------------------------------------------------ specifications
Step(t, budget, hist) ==
    \/ InsertCall(t, budget, hist)
    \/ InsLoad(t)
    \/ InsCas(t)
    \/ InsStore(t)
    \/ GetCall(t, budget, hist)
    \/ GetLoad(t)
    \/ GetVal(t)
    \/ LenCall(t, budget, hist)
    \/ LenKey(t)
    \/ LenVal(t)

\* any number of threads share the map
Next == New \/ \E t \in Threads : Step(t, MaxOps, FALSE)
Spec == Init /\ [][Next]_vars

\* one thread owns the map
NextSeq == New \/ Step(1, MaxOpsSeq, TRUE)
SpecSeq == Init /\ [][NextSeq]_vars

\* ------------------------------------------------------------------- claims
\* t's last call has ended: it returned, or it panicked
Ended(t)    == thr[t].pc \in {"idle", "panicked"} /\ thr[t].op # "none"
Returned(t) == thr[t].pc = "idle" /\ thr[t].op # "none"
InCall(t)   == thr[t].pc \notin {"idle", "panicked"}

\* every slot holds a nonzero key other than k
AllOther(k) == \A i \in DOMAIN keys : keys[i] # Zero64 /\ keys[i] # k

\* the keys insert has been called with
Started == {k \in NonZeroKeys : written[k] # {}}

\* C1: for every nonzero key k and every value v, insert(k, v) followed by get(k) on a
\* single thread, with nothing in between, returns Some(v).
C1_InsertThenGet ==
    \A t \in Threads :
        (/\ Ended(t)
         /\ thr[t].op = "get"
         /\ thr[t].key # Zero64
         /\ thr[t].prev.op = "insert"
         /\ thr[t].prev.key = thr[t].key)
        => thr[t].res = Some(thr[t].prev.val)

\* C2: an insert(k, _) that has returned has returned Full if and only if every slot
\* holds a nonzero key other than k (slots never change once they hold a key, so what
\* holds of the table when the call returns holds of it from then on).
C2_FullIffNoRoom ==
    \A t \in Threads :
        (Returned(t) /\ thr[t].op = "insert")
        => ((thr[t].res = Full) <=> AllOther(thr[t].key))

\* C3: on one thread, the first C = size inserts of distinct nonzero keys with nonzero
\* values into the fresh table all return Ok, len() after them returns C, and the insert
\* of one more distinct nonzero key returns Full.
C3_FillThenFull ==
    \A t \in Threads :
        Ended(t) =>
            /\ (thr[t].op = "insert" /\ distinct \in 1..size /\ nzrun = distinct)
               => thr[t].res = Ok
            /\ (thr[t].op = "len" /\ distinct = size /\ nzrun = size)
               => thr[t].res = Count(size)
            /\ (thr[t].op = "insert" /\ distinct = size + 1 /\ nzrun >= size)
               => thr[t].res = Full

\* C4: when the threads have inserted no more distinct keys than the capacity, a
\* get(k) of an inserted key that runs while no insert is in progress returns Some(w)
\* for a value w that some insert(k, w) was called with, and no insert or get of a
\* nonzero key crashes.
C4_ReadsWrittenValue ==
    \A t \in Threads :
        /\ (/\ Ended(t)
            /\ thr[t].op = "get"
            /\ thr[t].quiet
            /\ thr[t].key \in Started
            /\ Cardinality(Started) <= size)
           => \E w \in written[thr[t].key] : thr[t].res = Some(w)
        /\ (thr[t].pc = "panicked" /\ Cardinality(Started) <= size)
           => thr[t].key = Zero64

\* C5: on one thread, after inserts of n <= size distinct nonzero keys, get of each of
\* those keys returns the value it was inserted with.
C5_DistinctInsertsKept ==
    \A t \in Threads :
        (/\ Ended(t)
         /\ thr[t].op = "get"
         /\ thr[t].key \in Started
         /\ distinct \in 1..size)
        => \E w \in written[thr[t].key] : thr[t].res = Some(w)

\* C6: get(k) of a nonzero key k that no insert was ever called with returns None,
\* whatever the table holds and whatever inserts of other keys run beside it.
C6_AbsentKeyNone ==
    \A t \in Threads :
        (/\ Ended(t)
         /\ thr[t].op = "get"
         /\ thr[t].key # Zero64
         /\ thr[t].key \notin Started)
        => thr[t].res = None

\* every slot holds a key
TableFull == \A i \in DOMAIN keys : keys[i] # Zero64

\* C7: on one thread, an insert(k, v2) of a key that is in the table returns Ok, also
\* when the table is full, and a get(k) right after it returns Some(v2); so does a
\* get(k) after insert(k, v) is repeated with the same pair.
C7_OverwriteInPlace ==
    \A t \in Threads :
        Ended(t) =>
            /\ (thr[t].op = "insert" /\ thr[t].had) => thr[t].res = Ok
            /\ (/\ thr[t].op = "get"
                /\ thr[t].prev.op = "insert"
                /\ thr[t].prev.key = thr[t].key
                /\ thr[t].prev.had)
               => thr[t].res = Some(thr[t].prev.val)

\* the table is full, k was inserted with two different values, the second insert found
\* k in the table, and the get after it has returned
C7_Witness ==
    \E t \in Threads :
        /\ Returned(t)
        /\ TableFull
        /\ thr[t].op = "get"
        /\ thr[t].prev.op = "insert"
        /\ thr[t].prev.key = thr[t].key
        /\ thr[t].prev.had
        /\ thr[t].prev.res = Ok
        /\ Cardinality(written[thr[t].key]) = 2
        /\ thr[t].res = Some(thr[t].prev.val)

\* C8: in every step, a slot's key changes only from 0 to a nonzero key: a slot that
\* holds a key keeps that key.
C8_KeyClaimedOnce ==
    [][\A i \in DOMAIN keys :
          keys'[i] # keys[i] => (keys[i] = Zero64 /\ keys'[i] # Zero64)]_vars

\* a thread is about to compare_and_swap a slot that another key has taken since the
\* thread loaded it
C8_Witness ==
    \E t \in Threads :
        /\ thr[t].pc = "ins_cas"
        /\ keys[thr[t].idx] # Zero64
        /\ keys[thr[t].idx] # thr[t].key

\* C9: every insert and get of a nonzero key ends with Ok, Full, Some or None after at
\* most size probe iterations; a call in progress can always take its next step, whatever
\* the other threads do; after a lost compare_and_swap the call is at another slot.
C9_BoundedCompletion ==
    \A t \in Threads :
        /\ thr[t].n <= size
        /\ InCall(t) => ENABLED Step(t, 0, FALSE)
        /\ (InCall(t) /\ thr[t].lost >= 0) => thr[t].idx # thr[t].lost
        /\ (Ended(t) /\ thr[t].op \in {"insert", "get"} /\ thr[t].key # Zero64)
           => thr[t].res \in {Ok, Full, None} \cup {Some(v) : v \in Values}

\* C10: a call insert(0, _) or get(0) panics in the step that makes it, and that step
\* leaves every key and value as it was; no step of such a call follows.
C10_ZeroKeyFailsFast ==
    [][\A t \in Threads :
          (/\ thr'[t] # thr[t]
           /\ thr'[t].op \in {"insert", "get"}
           /\ thr'[t].key = Zero64)
          => (/\ thr'[t].pc = "panicked"
              /\ thr'[t].res = Panic
              /\ keys' = keys
              /\ values' = values)]_vars

\* insert(0, _) has panicked on one thread and get(0) on another, beside a key that is
\* stored
C10_Witness ==
    \E t, u \in Threads :
        /\ thr[t].pc = "panicked" /\ thr[t].op = "insert" /\ thr[t].key = Zero64
        /\ thr[u].pc = "panicked" /\ thr[u].op = "get" /\ thr[u].key = Zero64
        /\ \E i \in DOMAIN keys : keys[i] # Zero64 /\ values[i] # 0

\* sz is 2^n for an n in 1..63: one byte of the word is a power of two, the others
\* are zero, and the word is not 1
PowerOfTwo(sz) ==
    /\ sz # One64
    /\ \E j \in Limbs :
          /\ sz[j] \in {1, 2, 4, 8, 16, 32, 64, 128}
          /\ \A i \in Limbs \ {j} : sz[i] = 0

\* no insert has been called
Untouched == \A k \in NonZeroKeys : written[k] = {}

\* C11: new(capacity) succeeds exactly when capacity is 2^n for an n in 1..63, and any
\* other capacity fails and leaves no table; after a successful new both arrays have
\* capacity slots, all of them zero, so that len() returns 0 and get of every nonzero
\* key returns None on the table no insert has touched.
C11_NewPowerOfTwo ==
    /\ mapst # "none" => ((mapst = "live") <=> PowerOfTwo(newarg))
    /\ mapst = "panic" => (keys = <<>> /\ values = <<>>)
    /\ mapst = "live" =>
          /\ U64(size) = newarg
          /\ DOMAIN keys = 0..(size - 1)
          /\ DOMAIN values = 0..(size - 1)
          /\ Untouched => \A i \in 0..(size - 1) : keys[i] = Zero64 /\ values[i] = 0
    /\ \A t \in Threads :
          (Ended(t) /\ Untouched) =>
              /\ thr[t].op = "len" => thr[t].res = Count(0)
              /\ (thr[t].op = "get" /\ thr[t].key # Zero64) => thr[t].res = None

\* the 64-bit word w modulo m, from the most significant byte down
RECURSIVE ModFrom(_, _, _, _)
ModFrom(w, m, i, acc) == IF i = 0 THEN acc ELSE ModFrom(w, m, i - 1, (acc * Byte + w[i]) % m)

WordMod(w, m) == ModFrom(w, m, 8, 0)

\* start, start + 1, ... modulo sz, sz indices, with start = hash_key(k) mod sz
Cyclic(k, sz) == [j \in 1..sz |-> (WordMod(HashOf[k], sz) + j - 1) % sz]

\* C12: for every nonzero key the loop of insert and of get visits the indices start,
\* start + 1, ... modulo the capacity, with start = hash_key(key) modulo the capacity:
\* capacity distinct indices, each once, and the same sequence in insert and in get.
C12_ProbeSequence ==
    mapst = "live" =>
        /\ \A k \in NonZeroKeys :
              /\ ~RangePanics(HashOf[k], size)
              /\ Probes[k][size] = Cyclic(k, size)
              /\ \A i, j \in 1..Len(Probes[k][size]) :
                    Probes[k][size][i] = Probes[k][size][j] => i = j
        /\ \A t \in Threads :
              (InCall(t) /\ thr[t].op \in {"insert", "get"})
              => /\ thr[t].n \in 1..size
                 /\ thr[t].idx = Cyclic(thr[t].key, size)[thr[t].n]

\* C13: a get(k) that races the first insert(k, v) can see the claimed key before the
\* value is stored and return Some(0) though no insert passed 0; in every interleaving
\* the value a get(k) returns is the initial 0 or a value passed to an insert(k, _) that
\* has started, never a value passed for another key only.
C13_ValueOfOwnKey ==
    \A t \in Threads :
        (Ended(t) /\ thr[t].op = "get" /\ thr[t].key # Zero64)
        => \A v \in Values :
              thr[t].res = Some(v) => (v = 0 \/ v \in written[thr[t].key])

\* a get returned Some(0) for a key that insert got only nonzero values for, while
\* another key holds a nonzero value
C13_Witness ==
    \E t \in Threads :
        /\ Returned(t)
        /\ thr[t].op = "get"
        /\ thr[t].res = Some(0)
        /\ written[thr[t].key] # {}
        /\ 0 \notin written[thr[t].key]
        /\ \E i \in DOMAIN keys : keys[i] \notin {Zero64, thr[t].key} /\ values[i] # 0

IsSome(res) == \E v \in Values : res = Some(v)

\* C14: once a get(k) has returned Some(_), every get(k) that starts afterwards, on any
\* thread, returns Some(_) too.
C14_SomeStays ==
    \A t \in Threads :
        (Ended(t) /\ thr[t].op = "get" /\ thr[t].after) => IsSome(thr[t].res)

\* a get that began after a get of its key returned Some has returned, while the other
\* thread's last call is a get of the same key that returned Some
C14_Witness ==
    \E t, u \in Threads :
        /\ t # u
        /\ Returned(t) /\ thr[t].op = "get" /\ thr[t].after
        /\ Returned(u) /\ thr[u].op = "get" /\ thr[u].key = thr[t].key /\ IsSome(thr[u].res)
        /\ ~thr[u].after

\* the slot that holds key k
SlotOf(k) == CHOOSE i \in DOMAIN keys : keys[i] = k

\* C15: when two threads insert two different keys and both try to claim the same empty
\* slot, one compare_and_swap wins and the loser goes on from the next index; with a
\* second free slot and no further insert begun, both inserts return Ok, the two keys
\* are in two different slots, and a get of either returns its own value.
C15_RaceForSlot ==
    \A t \in Threads :
        \* the thread that is to store owns the slot
        /\ thr[t].pc = "ins_store" => keys[thr[t].idx] = thr[t].key
        \* the loser lost to another key and is past the slot
        /\ (thr[t].op = "insert" /\ thr[t].lost >= 0)
           => /\ keys[thr[t].lost] \notin {Zero64, thr[t].key}
              /\ InCall(t) => thr[t].idx # thr[t].lost
              /\ (Ended(t) /\ thr[t].fair)
                 => /\ thr[t].res = Ok
                    /\ KeyPresent(thr[t].key)
                    /\ SlotOf(thr[t].key) # thr[t].lost
                    /\ values[SlotOf(thr[t].key)] \in written[thr[t].key]
                    /\ \A u \in Threads \ {t} :
                          (/\ Ended(u)
                           /\ thr[u].op = "insert"
                           /\ thr[u].key = keys[thr[t].lost])
                          => /\ thr[u].res = Ok
                             /\ values[thr[t].lost] \in written[thr[u].key]
        \* the get of a stored key, with no insert in progress, returns the one value
        \* insert was called with for it
        /\ (/\ Ended(t) /\ thr[t].op = "get" /\ thr[t].quiet
            /\ KeyPresent(thr[t].key)
            /\ Cardinality(written[thr[t].key]) = 1)
           => \E v \in written[thr[t].key] : thr[t].res = Some(v)

\* thread t lost the race for a slot to thread u's key and both inserts returned Ok
C15_Witness ==
    \E t, u \in Threads :
        /\ Returned(t) /\ thr[t].op = "insert" /\ thr[t].lost >= 0 /\ thr[t].fair
        /\ Returned(u) /\ thr[u].op = "insert" /\ thr[u].key = keys[thr[t].lost]
        /\ thr[t].res = Ok /\ thr[u].res = Ok
        /\ ncalls = 2

\* the slots that hold a key, and those of them that hold a nonzero value too
Taken   == {i \in DOMAIN keys : keys[i] # Zero64}
Counted == {i \in Taken : values[i] # 0}

C17_OneSlotPerKey ==
    /\ \A i, j \in DOMAIN keys : (keys[i] # Zero64 /\ keys[i] = keys[j]) => i = j
    /\ \A t \in Threads :
          thr[t].pc = "ins_store"
          => \A i \in DOMAIN keys : (keys[i] = thr[t].key) <=> (i = thr[t].idx)

\* two threads are about to store into the same slot, for the same key, at the second
\* index of its sequence
C17_Witness ==
    \E t, u \in Threads :
        /\ t # u
        /\ thr[t].pc = "ins_store" /\ thr[u].pc = "ins_store"
        /\ thr[t].key = thr[u].key
        /\ thr[t].idx = thr[u].idx
        /\ thr[t].n = 2

\* C18: once an insert(k, _) has returned Ok, no insert(k, _) that is concurrent with it
\* or starts later returns Err(Full): none that ends after it, and none that ended
\* while it was in progress.
C18_NoFullAfterOk ==
    \A t \in Threads :
        (Ended(t) /\ thr[t].op = "insert")
        => /\ thr[t].late => thr[t].res # Full
           /\ thr[t].sawfull => thr[t].res # Ok

\* an insert of a key that an insert had returned Ok for has returned Ok on the full
\* table, and the other thread's insert returned Err(Full)
C18_Witness ==
    \E t, u \in Threads :
        /\ Returned(t) /\ thr[t].op = "insert" /\ thr[t].late /\ thr[t].res = Ok
        /\ TableFull
        /\ Returned(u) /\ thr[u].op = "insert" /\ thr[u].res = Full

\* in this step every key or value that changes is written by thread t: a key from 0
\* to t's key, a value to t's value, and t records the slot
WrittenBy(t) ==
    \A i \in DOMAIN keys :
        /\ keys'[i] # keys[i]
           => (keys[i] = Zero64 /\ keys'[i] = thr[t].key /\ thr'[t].wkey = thr[t].wkey \cup {i})
        /\ values'[i] # values[i]
           => (values'[i] = thr[t].val /\ thr'[t].wval = thr[t].wval \cup {i})

=============================================================================
